---------------------------- MODULE Spec2Model ----------------------------
(***************************************************************************)
(* A model of febrl/output.py: GenerateHistogram, SaveMatchStatusFile,     *)
(* SaveMatchDataSet and LoadWeightVectorFile.                              *)
(*                                                                         *)
(* Record identifiers are opaque strings in the code; they are modelled as *)
(* naturals whose order stands for the strings' lexicographic order.       *)
(* Python floats are modelled as the integers that have at most Prec       *)
(* significant bits, with round-to-nearest-even after every operation      *)
(* (IEEE 754 doubles have 53; the unit is an arbitrary power of two).      *)
(* Text is modelled as TLA+ strings built with \o.                         *)
(***************************************************************************)
EXTENDS Integers, Sequences, FiniteSets, TLC

(***************************************************************************)
(* The state: one group of variables per function of the module.           *)
(***************************************************************************)
\* GenerateHistogram(w_vec_dict, bin_width, file_name, match_sets)
VARIABLES
    h_pc,                   \* position in GenerateHistogram
    w_vec_dict,             \* argument: record-id pair -> weight vector
    bin_width,              \* argument
    file_name,              \* argument: "None" or a path
    match_sets,             \* argument: NoTuple or <<match, non-match, poss>>
    h_todo,                 \* entries the scan has not visited yet
    histo_dict,
    match_histo_dict,
    non_match_histo_dict,
    poss_match_histo_dict,
    max_bin_w_count,
    h_binned,               \* rec_id_tuple -> <<w_sum, binned_w>> as computed
    histo_list,
    h_result,               \* "running", "returned" or the exception raised
    h_file,                 \* the handle f: "none", "open" or "closed"
    h_fs,                   \* the destination file: [exists, lines]
    h_written               \* lines of histo_list written so far

hvars == <<h_pc, w_vec_dict, bin_width, file_name, match_sets, h_todo,
           histo_dict, match_histo_dict, non_match_histo_dict,
           poss_match_histo_dict, max_bin_w_count, h_binned, histo_list,
           h_result, h_file, h_fs, h_written>>

\* SaveMatchDataSet(match_set, dataset1, id_field1, new_dataset_name1,
\*                  dataset2, id_field2, new_dataset_name2)
VARIABLES
    m_pc,                   \* position in SaveMatchDataSet
    match_set,              \* argument: a set of record-id pairs
    m_enum,                 \* list(match_set): the set in its iteration order
    dataset1,               \* argument: the first data set
    dataset2,               \* argument: the second data set, or NoDataset
    do_link,
    match_rec_id_list,
    num_digit,
    mid_count,
    match_id_dict1,
    match_id_dict2,
    m_mids,                 \* this_mid of every iteration so far, in order
    add_rec_ident,
    new_dataset1,           \* the output data sets: [field_list, rows, finalised]
    new_dataset2,
    m_read,                 \* records of the current source read so far
    m_result                \* "running", "returned" or the exception raised

mvars == <<m_pc, match_set, m_enum, dataset1, dataset2, do_link,
           match_rec_id_list, num_digit, mid_count, match_id_dict1,
           match_id_dict2, m_mids, add_rec_ident, new_dataset1, new_dataset2,
           m_read, m_result>>

\* SaveMatchStatusFile(w_vec_dict, match_set, file_name)
VARIABLES
    s_pc,                   \* position in SaveMatchStatusFile
    s_w_vec_dict,           \* argument w_vec_dict
    s_match_set,            \* argument match_set
    s_enum,                 \* list(match_set): the set in its iteration order
    s_match_rec_id_list,
    s_num_digit,
    s_mid_count,
    s_file,                 \* the handle f: "none", "open" or "closed"
    s_lines,                \* the rows written to the file so far
    s_result

svars == <<s_pc, s_w_vec_dict, s_match_set, s_enum, s_match_rec_id_list,
           s_num_digit, s_mid_count, s_file, s_lines, s_result>>

\* LoadWeightVectorFile(file_name)
VARIABLES
    l_pc,                   \* position in LoadWeightVectorFile
    l_file_name,            \* argument file_name, then the name resolved
    l_existing,             \* the names of the files that exist
    l_content,              \* the rows of the CSV file
    in_file,                \* the handle in_file: "none", "open" or "closed"
    l_next,                 \* rows of the file the parser has delivered
    field_names_list,
    weight_vec_dict,
    l_result

lvars == <<l_pc, l_file_name, l_existing, l_content, in_file, l_next,
           field_names_list, weight_vec_dict, l_result>>

vars == <<hvars, mvars, svars, lvars>>

(***************************************************************************)
(* Bounds of the model.                                                    *)
(***************************************************************************)
\* Significant bits of a modelled float.
Prec == 6

(***************************************************************************)
(* Python values.                                                          *)
(***************************************************************************)
\* None as the value of the optional argument match_sets (a tuple otherwise).
NoTuple == <<>>

Abs(n) == IF n < 0 THEN -n ELSE n

RECURSIVE Pow2(_)
Pow2(n) == IF n = 0 THEN 1 ELSE 2 * Pow2(n - 1)

\* The number of low bits an integer of magnitude a loses in Prec bits.
LostBits(a) ==
    IF a < Pow2(Prec) THEN 0
    ELSE CHOOSE e \in 1..24 : /\ a \div Pow2(e) < Pow2(Prec)
                              /\ a \div Pow2(e - 1) >= Pow2(Prec)

\* Round-to-nearest, ties to the even mantissa: the float nearest to n.
FRound(n) ==
    LET a    == Abs(n)
        e    == LostBits(a)
        q    == a \div Pow2(e)
        rem  == a % Pow2(e)
        half == Pow2(e) \div 2
        up   == rem > half \/ (rem = half /\ e > 0 /\ q % 2 = 1)
        r    == (IF up THEN q + 1 ELSE q) * Pow2(e)
    IN  IF n < 0 THEN -r ELSE r

IsFloat(n) == FRound(n) = n

FAdd(a, b) == FRound(a + b)

FSub(a, b) == FRound(a - b)

\* C's fmod for y > 0: exact, with the sign of x.
CFmod(x, y) == IF x < 0 THEN -(Abs(x) % y) ELSE x % y

\* A remainder that truncates toward zero (no adjustment for a negative x).
PyModTruncating(x, y) == CFmod(x, y)

\* Python's float x % y for y > 0 (CPython float_rem): the result takes the
\* sign of the divisor; the adjustment mod + y is a float addition.
PyMod(x, y) ==
    LET mod == CFmod(x, y)
    IN  IF mod < 0 THEN FAdd(mod, y) ELSE mod

\* sum(w_vec): from 0, one float addition per element, left to right.
RECURSIVE PySumFrom(_, _, _)
PySumFrom(acc, w_vec, i) ==
    IF i > Len(w_vec) THEN acc
    ELSE PySumFrom(FAdd(acc, w_vec[i]), w_vec, i + 1)

PySum(w_vec) == PySumFrom(0, w_vec, 1)

\* dict.get(key, default) and d[key] = value on a dict modelled as a function.
DictGet(d, key, default) == IF key \in DOMAIN d THEN d[key] ELSE default

DictSet(d, key, value) ==
    [x \in (DOMAIN d) \cup {key} |-> IF x = key THEN value ELSE d[x]]

EmptyDict == [x \in {} |-> 0]

RECURSIVE SumOver(_, _)
SumOver(d, keys) ==
    IF keys = {} THEN 0
    ELSE LET x == CHOOSE y \in keys : TRUE
         IN  d[x] + SumOver(d, keys \ {x})

\* sum(d.values())
SumValues(d) == SumOver(d, DOMAIN d)


\* x_vals = list(keys); x_vals.sort(): the keys in ascending order.
RECURSIVE SortedSeq(_)
SortedSeq(S) ==
    IF S = {} THEN <<>>
    ELSE LET m == CHOOSE x \in S : \A y \in S : x <= y
         IN  <<m>> \o SortedSeq(S \ {m})

\* The scale factor and the bar lengths are computed from small integers in
\* IEEE double precision: a double is here its mantissa, a sequence of
\* MantBits bits with the most significant first, and the number frac of
\* those bits (counted from the right) that lie behind the binary point.
MantBits == 53

RECURSIVE Binary(_)
Binary(n) == IF n = 0 THEN <<>> ELSE Append(Binary(n \div 2), n % 2)

\* The bit sequence plus one, the carry entering at position i.
RECURSIVE BitsInc(_, _)
BitsInc(bits, i) ==
    IF i = 0 THEN <<1>> \o bits
    ELSE IF bits[i] = 1 THEN BitsInc([bits EXCEPT ![i] = 0], i - 1)
    ELSE [bits EXCEPT ![i] = 1]

\* The mantissa rounded up or not, cut back to MantBits bits after a carry.
Normalised(bits, frac, up) ==
    LET b == IF up THEN BitsInc(bits, Len(bits)) ELSE bits
    IN  IF Len(b) > MantBits
        THEN [bits |-> SubSeq(b, 1, MantBits), frac |-> frac - 1]
        ELSE [bits |-> b, frac |-> frac]

\* Long division: the first MantBits significant bits of the quotient, then
\* round to nearest, ties to even, by the remainder r.
RECURSIVE QuotientBits(_, _)
QuotientBits(q, y) ==
    IF Len(q.bits) >= MantBits
    THEN Normalised(q.bits, q.frac,
                    2 * q.r > y \/ (2 * q.r = y /\ q.bits[MantBits] = 1))
    ELSE LET b == IF 2 * q.r >= y THEN 1 ELSE 0
         IN  QuotientBits([bits |-> IF q.bits = <<>> /\ b = 0 THEN q.bits
                                    ELSE Append(q.bits, b),
                           r    |-> 2 * q.r - b * y,
                           frac |-> q.frac + 1], y)

\* float(x) / y for integers x, y > 0, correctly rounded.
FDiv(x, y) ==
    QuotientBits([bits |-> Binary(x \div y), r |-> x % y, frac |-> 0], y)

\* The exact product of a mantissa and a small integer, from the last bit on.
RECURSIVE TimesSmall(_, _, _, _)
TimesSmall(bits, c, carry, out) ==
    IF Len(out) = Len(bits) THEN Binary(carry) \o out
    ELSE LET t == c * bits[Len(bits) - Len(out)] + carry
         IN  TimesSmall(bits, c, t \div 2, <<t % 2>> \o out)

\* count * scale: the exact product rounded to MantBits bits.
FMulInt(count, scale) ==
    LET p == TimesSmall(scale.bits, count, 0, <<>>)
        k == Len(p) - MantBits
    IN  IF k <= 0 THEN [bits |-> p, frac |-> scale.frac]
        ELSE LET rest == \E i \in (MantBits + 2)..Len(p) : p[i] = 1
                 up   == p[MantBits + 1] = 1 /\ (rest \/ p[MantBits] = 1)
             IN  Normalised(SubSeq(p, 1, MantBits), scale.frac - k, up)

RECURSIVE BitsValue(_)
BitsValue(bits) ==
    IF bits = <<>> THEN 0
    ELSE 2 * BitsValue(SubSeq(bits, 1, Len(bits) - 1)) + bits[Len(bits)]

\* int(x) for a double x >= 0 below 2^31: the bits before the binary point.
IntOf(x) ==
    LET n == Len(x.bits) - x.frac
    IN  IF n <= 0 THEN 0 ELSE BitsValue(SubSeq(x.bits, 1, n))

\* int(count * scale): a float multiplication, then truncation.
BarLength(count, scale) == IntOf(FMulInt(count, scale))

(***************************************************************************)
(* GenerateHistogram(w_vec_dict, bin_width, file_name, match_sets)         *)
(***************************************************************************)
MAX_HISTO_WIDTH == 80

\* Record-id pairs and weight vectors the histogram inputs are drawn from.
HKeys == {<<1, 2>>, <<1, 3>>, <<2, 3>>}

HVectors == {<<70, 70>>, <<-74, -74>>, <<2, 0>>, <<-5, 0>>, <<100, 29>>}

HVectorsSmall == {<<2, 0>>, <<-5, 0>>}

BinWidths == {0, 3, 4}

Mappings(keys, vectors) ==
    UNION {[d -> vectors] : d \in SUBSET keys}

Partitions(keys) ==
    {<<m, n, p>> : m \in SUBSET keys, n \in SUBSET keys, p \in SUBSET keys}

\* A line of the report: a text line, or a data row given by its columns
\* (the counts shown, the bin key and the number of '*' of the bar).
TextLine(text) == [text |-> text, counts |-> <<>>, x_val |-> 0, stars |-> 0]

DataRow(counts, x_val, stars) ==
    [text |-> "", counts |-> counts, x_val |-> x_val, stars |-> stars]

HIdle ==
    /\ h_pc = "idle"
    /\ w_vec_dict = EmptyDict
    /\ bin_width = 1
    /\ file_name = "None"
    /\ match_sets = NoTuple
    /\ h_todo = {}
    /\ histo_dict = EmptyDict
    /\ match_histo_dict = EmptyDict
    /\ non_match_histo_dict = EmptyDict
    /\ poss_match_histo_dict = EmptyDict
    /\ max_bin_w_count = -1
    /\ h_binned = EmptyDict
    /\ histo_list = <<>>
    /\ h_result = "running"
    /\ h_file = "none"
    /\ h_fs = [exists |-> FALSE, lines |-> <<>>]
    /\ h_written = 0

\* The call's arguments: any mapping without a partition, or a mapping of small
\* vectors with any partition over the keys.
HInit ==
    /\ h_pc = "start"
    /\ \/ /\ w_vec_dict \in Mappings(HKeys, HVectors)
          /\ bin_width \in BinWidths
          /\ match_sets = NoTuple
          /\ \/ /\ file_name = "None"
                /\ h_fs = [exists |-> FALSE, lines |-> <<>>]
             \/ /\ file_name = "histo.txt"
                /\ h_fs \in {[exists |-> FALSE, lines |-> <<>>],
                             [exists |-> TRUE, lines |-> <<TextLine("old")>>]}
       \/ /\ w_vec_dict \in Mappings(HKeys, HVectorsSmall)
          /\ bin_width = 3
          /\ match_sets \in Partitions(HKeys)
          /\ file_name \in {"None", "histo.txt"}
          /\ h_fs = [exists |-> FALSE, lines |-> <<>>]
    /\ h_todo = {}
    /\ histo_dict = EmptyDict
    /\ match_histo_dict = EmptyDict
    /\ non_match_histo_dict = EmptyDict
    /\ poss_match_histo_dict = EmptyDict
    /\ max_bin_w_count = -1
    /\ h_binned = EmptyDict
    /\ histo_list = <<>>
    /\ h_result = "running"
    /\ h_file = "none"
    /\ h_written = 0

\* A length check that leaves out the possible-match set.
MatchSetsLengthOkTwoSets(dict, sets) ==
    Cardinality(DOMAIN dict) = Cardinality(sets[1]) + Cardinality(sets[2])

\* The argument checks: bin_width must be positive and, with match sets, the
\* sizes of the three sets must add up to the size of the mapping.
MatchSetsLengthOk(dict, sets) ==
    Cardinality(DOMAIN dict)
        = Cardinality(sets[1]) + Cardinality(sets[2]) + Cardinality(sets[3])

ArgumentsOk ==
    /\ bin_width > 0
    /\ match_sets # NoTuple => MatchSetsLengthOk(w_vec_dict, match_sets)

GH_CheckFail ==
    /\ UNCHANGED <<mvars, svars, lvars>>
    /\ h_pc = "start"
    /\ ~ArgumentsOk
    /\ h_pc' = "done"
    /\ h_result' = "Exception"
    /\ UNCHANGED <<w_vec_dict, bin_width, file_name, match_sets, h_todo,
                   histo_dict, match_histo_dict, non_match_histo_dict,
                   poss_match_histo_dict, max_bin_w_count, h_binned,
                   histo_list, h_file, h_fs, h_written>>

\* An empty mapping handled only after the destination was opened.
GH_EmptyReturnAfterOpen ==
    /\ UNCHANGED <<mvars, svars, lvars>>
    /\ h_pc = "start"
    /\ ArgumentsOk
    /\ DOMAIN w_vec_dict = {}
    /\ h_pc' = "done"
    /\ h_result' = "returned"
    /\ histo_list' = <<>>
    /\ h_fs' = IF file_name = "None" THEN h_fs
               ELSE [exists |-> TRUE, lines |-> <<>>]
    /\ UNCHANGED <<w_vec_dict, bin_width, file_name, match_sets, h_todo,
                   histo_dict, match_histo_dict, non_match_histo_dict,
                   poss_match_histo_dict, max_bin_w_count, h_binned,
                   h_file, h_written>>

\* if w_vec_dict == {}: warn and return []
GH_EmptyReturn ==
    /\ UNCHANGED <<mvars, svars, lvars>>
    /\ h_pc = "start"
    /\ ArgumentsOk
    /\ DOMAIN w_vec_dict = {}
    /\ h_pc' = "done"
    /\ h_result' = "returned"
    /\ histo_list' = <<>>
    /\ UNCHANGED <<w_vec_dict, bin_width, file_name, match_sets, h_todo,
                   histo_dict, match_histo_dict, non_match_histo_dict,
                   poss_match_histo_dict, max_bin_w_count, h_binned,
                   h_file, h_fs, h_written>>

\* popitem and put back, the empty tables, max_bin_w_count = -1
GH_BeginScan ==
    /\ UNCHANGED <<mvars, svars, lvars>>
    /\ h_pc = "start"
    /\ ArgumentsOk
    /\ DOMAIN w_vec_dict # {}
    /\ h_pc' = "scan"
    /\ h_todo' = DOMAIN w_vec_dict
    /\ histo_dict' = EmptyDict
    /\ match_histo_dict' = EmptyDict
    /\ non_match_histo_dict' = EmptyDict
    /\ poss_match_histo_dict' = EmptyDict
    /\ max_bin_w_count' = -1
    /\ UNCHANGED <<w_vec_dict, bin_width, file_name, match_sets, h_binned,
                   histo_list, h_result, h_file, h_fs, h_written>>

BinnedW(w_sum, width) == FSub(w_sum, PyMod(w_sum, width))

\* A count that is set instead of increased.
IncreasedOverwriting(d, key) == DictSet(d, key, 1)

Increased(d, key) == DictSet(d, key, DictGet(d, key, 0) + 1)

\* The loop body with the second test an "if" of its own, not an "elif".
GH_ScanEntryElifAsIf ==
    /\ UNCHANGED <<mvars, svars, lvars>>
    /\ h_pc = "scan"
    /\ \E rec_id_tuple \in h_todo :
          LET w_sum    == PySum(w_vec_dict[rec_id_tuple])
              binned_w == BinnedW(w_sum, bin_width)
              binned_w_count == DictGet(histo_dict, binned_w, 0) + 1
          IN  /\ histo_dict' = Increased(histo_dict, binned_w)
              /\ max_bin_w_count' =
                     IF binned_w_count > max_bin_w_count
                     THEN binned_w_count ELSE max_bin_w_count
              /\ IF match_sets = NoTuple
                 THEN UNCHANGED <<match_histo_dict, non_match_histo_dict,
                                  poss_match_histo_dict>>
                 ELSE /\ match_histo_dict' =
                             IF rec_id_tuple \in match_sets[1]
                             THEN Increased(match_histo_dict, binned_w)
                             ELSE match_histo_dict
                      /\ non_match_histo_dict' =
                             IF rec_id_tuple \in match_sets[2]
                             THEN Increased(non_match_histo_dict, binned_w)
                             ELSE non_match_histo_dict
                      /\ poss_match_histo_dict' =
                             IF rec_id_tuple \notin match_sets[2]
                             THEN Increased(poss_match_histo_dict, binned_w)
                             ELSE poss_match_histo_dict
              /\ h_binned' = DictSet(h_binned, rec_id_tuple,
                                     <<w_sum, binned_w>>)
              /\ h_todo' = h_todo \ {rec_id_tuple}
    /\ UNCHANGED <<h_pc, w_vec_dict, bin_width, file_name, match_sets,
                   histo_list, h_result, h_file, h_fs, h_written>>

\* One iteration of the loop over w_vec_dict.items().
GH_ScanEntry ==
    /\ UNCHANGED <<mvars, svars, lvars>>
    /\ h_pc = "scan"
    /\ \E rec_id_tuple \in h_todo :
          LET w_sum    == PySum(w_vec_dict[rec_id_tuple])
              binned_w == BinnedW(w_sum, bin_width)
              binned_w_count == DictGet(histo_dict, binned_w, 0) + 1
          IN  /\ histo_dict' = Increased(histo_dict, binned_w)
              /\ max_bin_w_count' =
                     IF binned_w_count > max_bin_w_count
                     THEN binned_w_count ELSE max_bin_w_count
              /\ IF match_sets = NoTuple
                 THEN UNCHANGED <<match_histo_dict, non_match_histo_dict,
                                  poss_match_histo_dict>>
                 ELSE IF rec_id_tuple \in match_sets[1]
                 THEN /\ match_histo_dict' =
                             Increased(match_histo_dict, binned_w)
                      /\ UNCHANGED <<non_match_histo_dict,
                                     poss_match_histo_dict>>
                 ELSE IF rec_id_tuple \in match_sets[2]
                 THEN /\ non_match_histo_dict' =
                             Increased(non_match_histo_dict, binned_w)
                      /\ UNCHANGED <<match_histo_dict, poss_match_histo_dict>>
                 ELSE /\ poss_match_histo_dict' =
                             Increased(poss_match_histo_dict, binned_w)
                      /\ UNCHANGED <<match_histo_dict, non_match_histo_dict>>
              /\ h_binned' = DictSet(h_binned, rec_id_tuple,
                                     <<w_sum, binned_w>>)
              /\ h_todo' = h_todo \ {rec_id_tuple}
    /\ UNCHANGED <<h_pc, w_vec_dict, bin_width, file_name, match_sets,
                   histo_list, h_result, h_file, h_fs, h_written>>

\* Characters reserved for the columns left of the bar.
ReservedWidth ==
    IF match_sets = NoTuple THEN 19
    ELSE IF DOMAIN poss_match_histo_dict = {} THEN 30
    ELSE 41

HeaderLines ==
    IF match_sets = NoTuple
    THEN <<TextLine("  Counts  | w_sum |"),
           TextLine("-------------------")>>
    ELSE IF DOMAIN poss_match_histo_dict = {}
    THEN <<TextLine("       Counts        |"),
           TextLine("  Match   | Non-Match| w_sum |"),
           TextLine("------------------------------")>>
    ELSE <<TextLine("              Counts            |"),
           TextLine("  Match   | Non-Match|Poss-Match| w_sum |"),
           TextLine("-----------------------------------------")>>

RowFor(x_val, scale_factor_y) ==
    LET this_count == histo_dict[x_val]
        counts ==
            IF match_sets = NoTuple THEN <<this_count>>
            ELSE IF DOMAIN poss_match_histo_dict = {}
            THEN <<DictGet(match_histo_dict, x_val, 0),
                   DictGet(non_match_histo_dict, x_val, 0)>>
            ELSE <<DictGet(match_histo_dict, x_val, 0),
                   DictGet(non_match_histo_dict, x_val, 0),
                   DictGet(poss_match_histo_dict, x_val, 0)>>
    IN  DataRow(counts, x_val, BarLength(this_count, scale_factor_y))

HistoLines ==
    LET x_vals == SortedSeq(DOMAIN histo_dict)
        scale_factor_y == FDiv(MAX_HISTO_WIDTH - ReservedWidth, max_bin_w_count)
    IN  <<TextLine("Weight histogram:"), TextLine("-----------------")>>
        \o HeaderLines
        \o [i \in 1..Len(x_vals) |-> RowFor(x_vals[i], scale_factor_y)]
        \o <<TextLine("")>>

\* assert sum(histo_dict.values()) == len(w_vec_dict)
HistoAssertion == SumValues(histo_dict) = Cardinality(DOMAIN w_vec_dict)

\* After the loop: sort the bins, check the assertion, build the lines.
GH_Render ==
    /\ UNCHANGED <<mvars, svars, lvars>>
    /\ h_pc = "scan"
    /\ h_todo = {}
    /\ IF HistoAssertion
       THEN /\ histo_list' = HistoLines
            /\ h_pc' = "rendered"
            /\ UNCHANGED h_result
       ELSE /\ h_result' = "AssertionError"
            /\ h_pc' = "done"
            /\ UNCHANGED histo_list
    /\ UNCHANGED <<w_vec_dict, bin_width, file_name, match_sets, h_todo,
                   histo_dict, match_histo_dict, non_match_histo_dict,
                   poss_match_histo_dict, max_bin_w_count, h_binned,
                   h_file, h_fs, h_written>>

\* file_name == None: return histo_list
GH_ReturnNoFile ==
    /\ UNCHANGED <<mvars, svars, lvars>>
    /\ h_pc = "rendered"
    /\ file_name = "None"
    /\ h_pc' = "done"
    /\ h_result' = "returned"
    /\ UNCHANGED <<w_vec_dict, bin_width, file_name, match_sets, h_todo,
                   histo_dict, match_histo_dict, non_match_histo_dict,
                   poss_match_histo_dict, max_bin_w_count, h_binned,
                   histo_list, h_file, h_fs, h_written>>

\* f = open(file_name, "w"): creates or truncates the file, or raises IOError
GH_OpenFile ==
    /\ UNCHANGED <<mvars, svars, lvars>>
    /\ h_pc = "rendered"
    /\ file_name # "None"
    /\ \/ /\ h_file' = "open"
          /\ h_fs' = [exists |-> TRUE, lines |-> <<>>]
          /\ h_pc' = "write"
          /\ UNCHANGED h_result
       \/ /\ h_result' = "IOError"
          /\ h_pc' = "done"
          /\ UNCHANGED <<h_file, h_fs>>
    /\ UNCHANGED <<w_vec_dict, bin_width, file_name, match_sets, h_todo,
                   histo_dict, match_histo_dict, non_match_histo_dict,
                   poss_match_histo_dict, max_bin_w_count, h_binned,
                   histo_list, h_written>>

\* f.write(line + os.linesep): writes the next line, or fails
GH_WriteLine ==
    /\ UNCHANGED <<mvars, svars, lvars>>
    /\ h_pc = "write"
    /\ h_written < Len(histo_list)
    /\ \/ /\ h_fs' = [h_fs EXCEPT !.lines = Append(@, histo_list[h_written + 1])]
          /\ h_written' = h_written + 1
          /\ UNCHANGED <<h_pc, h_result>>
       \/ /\ h_result' = "IOError"
          /\ h_pc' = "done"
          /\ UNCHANGED <<h_fs, h_written>>
    /\ UNCHANGED <<w_vec_dict, bin_width, file_name, match_sets, h_todo,
                   histo_dict, match_histo_dict, non_match_histo_dict,
                   poss_match_histo_dict, max_bin_w_count, h_binned,
                   histo_list, h_file>>

\* f.close() and return histo_list
GH_CloseReturn ==
    /\ UNCHANGED <<mvars, svars, lvars>>
    /\ h_pc = "write"
    /\ h_written = Len(histo_list)
    /\ h_file' = "closed"
    /\ h_pc' = "done"
    /\ h_result' = "returned"
    /\ UNCHANGED <<w_vec_dict, bin_width, file_name, match_sets, h_todo,
                   histo_dict, match_histo_dict, non_match_histo_dict,
                   poss_match_histo_dict, max_bin_w_count, h_binned,
                   histo_list, h_fs, h_written>>

GenerateHistogram ==
    \/ GH_CheckFail
    \/ GH_EmptyReturn
    \/ GH_BeginScan
    \/ GH_ScanEntry
    \/ GH_Render
    \/ GH_ReturnNoFile
    \/ GH_OpenFile
    \/ GH_WriteLine
    \/ GH_CloseReturn

(***************************************************************************)
(* Properties of GenerateHistogram.                                        *)
(***************************************************************************)
NumEntries == Cardinality(DOMAIN w_vec_dict)

\* C1: during the scan the combined counts add up to the number of entries
\* visited; once the scan is over they add up to the number of entries of the
\* mapping, with or without a partition, and the assertion never fails.
C1_BinCountsSumToEntries ==
    /\ h_result # "AssertionError"
    /\ h_pc = "scan" =>
          SumValues(histo_dict) = NumEntries - Cardinality(h_todo)
    /\ h_pc \in {"rendered", "write"} => SumValues(histo_dict) = NumEntries
    /\ (h_pc = "done" /\ h_result \in {"returned", "IOError"} /\ NumEntries > 0)
          => SumValues(histo_dict) = NumEntries

\* A partitioned report of three entries in two bins was rendered.
C1_Witness ==
    /\ h_pc = "rendered"
    /\ match_sets # NoTuple
    /\ NumEntries = 3
    /\ Cardinality(DOMAIN histo_dict) = 2

\* The three sets are pairwise disjoint and cover the mapping's keys exactly.
DisjointCover ==
    /\ match_sets[1] \cap match_sets[2] = {}
    /\ match_sets[1] \cap match_sets[3] = {}
    /\ match_sets[2] \cap match_sets[3] = {}
    /\ match_sets[1] \cup match_sets[2] \cup match_sets[3] = DOMAIN w_vec_dict

SizesAddUp ==
    Cardinality(match_sets[1]) + Cardinality(match_sets[2])
        + Cardinality(match_sets[3]) = NumEntries

\* C2 as claimed: a disjoint exact cover is accepted, and every partition
\* with a missing or a duplicated key ends in the validation error.
C2_AsClaimed ==
    (match_sets # NoTuple /\ bin_width > 0 /\ h_pc # "start") =>
        IF DisjointCover THEN h_result # "Exception"
        ELSE h_pc = "done" /\ h_result = "Exception"

\* C2 as amended: a disjoint exact cover is accepted, and a partition is
\* rejected exactly when the sizes of its three sets do not add up to the
\* size of the mapping (a partition with a missing and a duplicated key whose
\* sizes add up is accepted).
C2_RejectedIffSizesDiffer ==
    (match_sets # NoTuple /\ bin_width > 0 /\ h_pc # "start") =>
        /\ DisjointCover => h_result # "Exception"
        /\ SizesAddUp => h_result # "Exception"
        /\ ~SizesAddUp => h_pc = "done" /\ h_result = "Exception"

\* A partition with a key in two sets and a key in none was accepted and its
\* histogram rendered.
C2_Witness ==
    /\ match_sets # NoTuple
    /\ h_pc = "rendered"
    /\ match_sets[1] \cap match_sets[2] # {}
    /\ (DOMAIN w_vec_dict)
          \ (match_sets[1] \cup match_sets[2] \cup match_sets[3]) # {}

\* C6 as claimed: every entry's bin key k satisfies 0 <= s - k < bin_width.
C6_AsClaimed ==
    \A t \in DOMAIN h_binned :
        LET s == h_binned[t][1]
            k == h_binned[t][2]
        IN  0 <= s - k /\ s - k < bin_width

\* C6 as amended: the bin key never lies above the sum (so a negative sum is
\* binned at or below it), and s - k < bin_width holds whenever the sum and
\* the bin width are small enough for the remainder and the subtraction to
\* be exact; beyond that the rounded subtraction can give s - k >= bin_width.
C6_BinKeyAtOrBelowSum ==
    \A t \in DOMAIN h_binned :
        LET s == h_binned[t][1]
            k == h_binned[t][2]
        IN  /\ k <= s
            /\ Abs(s) + bin_width <= Pow2(Prec) => s - k < bin_width

\* A negative sum that is no multiple of the bin width went to the bin below.
C6_Witness ==
    \E t \in DOMAIN h_binned :
        /\ h_binned[t][1] < 0
        /\ h_binned[t][2] < h_binned[t][1]
        /\ Abs(h_binned[t][1]) + bin_width <= Pow2(Prec)

EmptyCall == h_pc = "start" /\ DOMAIN w_vec_dict = {} /\ bin_width > 0

ReturnsEmptyUntouched ==
    /\ h_pc' = "done"
    /\ h_result' = "returned"
    /\ histo_list' = <<>>
    /\ h_fs' = h_fs
    /\ h_file' = "none"

\* C10 as claimed: every call on an empty mapping with a valid bin width
\* returns the empty list and leaves the destination file as it was.
C10_AsClaimed == [][EmptyCall => ReturnsEmptyUntouched]_vars

\* C10 as amended: so does every such call that passes no partition, or a
\* partition of three empty sets (any other partition fails the size check
\* first, which is an error).
C10_EmptyMappingReturnsEmpty ==
    [][(EmptyCall /\ (match_sets = NoTuple \/ SizesAddUp))
          => ReturnsEmptyUntouched]_vars

\* An empty mapping with a destination given has returned, and no file exists.
C10_Witness ==
    /\ h_pc = "done"
    /\ h_result = "returned"
    /\ DOMAIN w_vec_dict = {}
    /\ file_name # "None"
    /\ ~h_fs.exists
    /\ histo_list = <<>>

\* The entries scanned so far that fall into a bin and into a class: match
\* if in the first set, non-match if not but in the second, possible match
\* if in neither.
ClassOf(t) ==
    IF t \in match_sets[1] THEN "match"
    ELSE IF t \in match_sets[2] THEN "non_match"
    ELSE "poss_match"

CountedAs(class, x_val) ==
    Cardinality({t \in DOMAIN h_binned :
                    h_binned[t][2] = x_val /\ ClassOf(t) = class})

SubHistogramIs(dict, class) ==
    /\ DOMAIN dict \subseteq DOMAIN histo_dict
    /\ \A x_val \in DOMAIN histo_dict :
          /\ DictGet(dict, x_val, 0) = CountedAs(class, x_val)
          /\ x_val \in DOMAIN dict <=> CountedAs(class, x_val) > 0

ScanStarted == h_pc \in {"scan", "rendered", "write"} \/ DOMAIN h_binned # {}

\* C13: with an accepted partition, at every point of the scan and after it
\* the three sub-counts of each bin add up to the bin's combined count, each
\* entry scanned is counted in one sub-histogram only (match before
\* non-match before possible match), and once a disjoint partition covering
\* the keys has been scanned each sub-histogram's total is the size of its
\* set.
C13_SubCountsAddUp ==
    (match_sets # NoTuple /\ ScanStarted) =>
        /\ \A x_val \in DOMAIN histo_dict :
              DictGet(match_histo_dict, x_val, 0)
              + DictGet(non_match_histo_dict, x_val, 0)
              + DictGet(poss_match_histo_dict, x_val, 0) = histo_dict[x_val]
        /\ SubHistogramIs(match_histo_dict, "match")
        /\ SubHistogramIs(non_match_histo_dict, "non_match")
        /\ SubHistogramIs(poss_match_histo_dict, "poss_match")
        /\ SumValues(match_histo_dict) + SumValues(non_match_histo_dict)
           + SumValues(poss_match_histo_dict) = Cardinality(DOMAIN h_binned)
        /\ (h_todo = {} /\ DisjointCover) =>
              /\ SumValues(match_histo_dict) = Cardinality(match_sets[1])
              /\ SumValues(non_match_histo_dict) = Cardinality(match_sets[2])
              /\ SumValues(poss_match_histo_dict) = Cardinality(match_sets[3])

\* Three entries, one in each set of a proper partition, have been scanned
\* and the report returned; one bin holds a match and a possible match.
C13_Witness ==
    /\ h_pc = "done"
    /\ h_result = "returned"
    /\ match_sets # NoTuple
    /\ DisjointCover
    /\ Cardinality(match_sets[1]) = 1
    /\ Cardinality(match_sets[2]) = 1
    /\ Cardinality(match_sets[3]) = 1
    /\ \E x_val \in DOMAIN histo_dict :
          /\ histo_dict[x_val] = 2
          /\ DictGet(match_histo_dict, x_val, 0) = 1
          /\ DictGet(poss_match_histo_dict, x_val, 0) = 1

(***************************************************************************)
(* Text and sorting as SaveMatchDataSet and SaveMatchStatusFile use them.  *)
(***************************************************************************)
DigitChar == <<"0", "1", "2", "3", "4", "5", "6", "7", "8", "9">>

\* "%s" % (n) for an integer n >= 0: its decimal digits.
RECURSIVE Str(_)
Str(n) ==
    IF n < 10 THEN DigitChar[n + 1]
    ELSE Str(n \div 10) \o DigitChar[(n % 10) + 1]

\* str.zfill(width): zeros on the left up to the width, never a cut.
RECURSIVE ZFill(_, _)
ZFill(text, width) ==
    IF Len(text) >= width THEN text ELSE ZFill("0" \o text, width)

RECURSIVE Pow10(_)
Pow10(n) == IF n = 0 THEN 1 ELSE 10 * Pow10(n - 1)

\* int(math.ceil(math.log(n, 10))) for n >= 1: the least d with 10^d >= n.
CeilLog10(n) == CHOOSE d \in 0..9 : Pow10(d) >= n /\ (d > 0 => Pow10(d - 1) < n)

\* The width taken as the number of decimal digits of n.
NumDigitAsDigitCount(n) == Len(Str(n))

\* num_digit for a match set of n pairs.
NumDigit(n) ==
    IF n > 0 THEN (IF CeilLog10(n) > 1 THEN CeilLog10(n) ELSE 1) ELSE 1

\* this_mid = "mid%s" % (mid_count_str.zfill(num_digit))
ThisMid(count, width) == "mid" \o ZFill(Str(count), width)

\* Tuple comparison of two record-id pairs.
PairLess(p, q) == p[1] < q[1] \/ (p[1] = q[1] /\ p[2] < q[2])

RECURSIVE InsertPair(_, _)
InsertPair(sorted, p) ==
    IF sorted = <<>> THEN <<p>>
    ELSE IF PairLess(p, Head(sorted)) THEN <<p>> \o sorted
    ELSE <<Head(sorted)>> \o InsertPair(Tail(sorted), p)

RECURSIVE SortFrom(_, _, _)
SortFrom(sorted, list, i) ==
    IF i > Len(list) THEN sorted
    ELSE SortFrom(InsertPair(sorted, list[i]), list, i + 1)

\* A sort that leaves the list as it was enumerated.
SortPairsNotSorting(list) == list

\* list.sort() on a list of pairs.
SortPairs(list) == SortFrom(<<>>, list, 1)

\* ";".join(mid_list)
RECURSIVE JoinSemi(_)
JoinSemi(list) ==
    IF list = <<>> THEN ""
    ELSE IF Len(list) = 1 THEN list[1]
    ELSE list[1] \o ";" \o JoinSemi(Tail(list))

(***************************************************************************)
(* The inputs of SaveMatchDataSet.                                         *)
(***************************************************************************)
\* Pairs of the large match sets: the first MaxPairs pairs, row by row, of
\* the grid of record identifiers 1..GridW.
MaxPairs == 11

GridW == 4

\* Match sets of up to MaxPermLen pairs are enumerated in every order.
MaxPermLen == 3

PairAt(k) == <<((k - 1) \div GridW) + 1, ((k - 1) % GridW) + 1>>

BigPairs == {PairAt(k) : k \in 1..MaxPairs}

\* The large match sets: all but at most two of the pairs.
LargeMatchSets == {S \in SUBSET BigPairs : Cardinality(S) >= MaxPairs - 2}

SmallPairs == {<<1, 2>>, <<2, 3>>, <<3, 2>>}

RECURSIVE Perms(_)
Perms(S) ==
    IF S = {} THEN {<<>>}
    ELSE UNION {{<<x>> \o rest : rest \in Perms(S \ {x})} : x \in S}

RECURSIVE Ascending(_)
Ascending(S) ==
    IF S = {} THEN <<>>
    ELSE LET m == CHOOSE x \in S : \A y \in S : x = y \/ PairLess(x, y)
         IN  <<m>> \o Ascending(S \ {m})

Reversed(list) == [i \in 1..Len(list) |-> list[Len(list) + 1 - i]]

\* The orders in which list(S) may deliver the set S.
Orders(S) ==
    IF Cardinality(S) <= MaxPermLen THEN Perms(S)
    ELSE {Ascending(S), Reversed(Ascending(S))}

NoDataset ==
    [dataset_type |-> "None", field_list |-> <<>>, rec_ident |-> "",
     records |-> <<>>]

\* Field lists: (name, column) for a CSV data set, (name, width) for COL.
CsvFieldLists ==
    {<<<<"surname", 0>>, <<"suburb", 1>>>>,
     <<<<"surname", 1>>, <<"suburb", 0>>>>,
     <<<<"surname", 0>>, <<"suburb", 3>>>>,
     <<<<"rec_id", 0>>, <<"surname", 1>>>>}

ColFieldLists ==
    {<<<<"surname", 10>>, <<"suburb", 5>>>>,
     <<<<"rec_id", 4>>, <<"surname", 10>>>>}

\* The record identifiers of a data set, in the order readall() yields them.
RecordOrders == {<<1, 2, 3>>, <<3, 1>>, <<>>}

\* readall() yields (rec_id, rec_list): one value per field of the data set.
RecordsOf(ids, field_list) ==
    [i \in 1..Len(ids) |->
        <<ids[i], [j \in 1..Len(field_list) |-> 10 * ids[i] + j]>>]

MakeDataset(type, field_list, ids) ==
    [dataset_type |-> type, field_list |-> field_list, rec_ident |-> "rec_id",
     records |-> RecordsOf(ids, field_list)]

Datasets ==
    {MakeDataset("CSV", fl, ids) : fl \in CsvFieldLists, ids \in RecordOrders}
    \cup
    {MakeDataset("COL", fl, ids) : fl \in ColFieldLists, ids \in RecordOrders}

PlainDataset == MakeDataset("CSV", <<<<"surname", 0>>, <<"suburb", 1>>>>, <<2>>)

id_field1 == "match_id1"

id_field2 == "match_id2"

NoOutput == [field_list |-> <<>>, rows |-> <<>>, finalised |-> 0]

MRest ==
    /\ m_enum \in Orders(match_set)
    /\ do_link = FALSE
    /\ match_rec_id_list = <<>>
    /\ num_digit = 0
    /\ mid_count = 0
    /\ match_id_dict1 = EmptyDict
    /\ match_id_dict2 = EmptyDict
    /\ m_mids = <<>>
    /\ add_rec_ident = FALSE
    /\ new_dataset1 = NoOutput
    /\ new_dataset2 = NoOutput
    /\ m_read = 0
    /\ m_result = "running"

MIdle ==
    /\ m_pc = "idle"
    /\ match_set = {}
    /\ dataset1 = NoDataset
    /\ dataset2 = NoDataset
    /\ MRest

\* The call's arguments: a large match set with plain data sets, or a small
\* match set with any data set on either side.
MInit ==
    /\ m_pc = "start"
    /\ \/ /\ match_set \in LargeMatchSets
          /\ dataset1 = PlainDataset
          /\ dataset2 \in {NoDataset, PlainDataset}
       \/ /\ match_set \in SUBSET SmallPairs
          /\ dataset1 \in Datasets
          /\ dataset2 \in {NoDataset} \cup Datasets
    /\ MRest

(***************************************************************************)
(* SaveMatchDataSet                                                        *)
(***************************************************************************)
\* Sort the match set, compute the digit width, start the counter.
SMD_Prepare ==
    /\ UNCHANGED <<hvars, svars, lvars>>
    /\ m_pc = "start"
    /\ do_link' = (dataset2 # NoDataset)
    /\ match_rec_id_list' = SortPairs(m_enum)
    /\ num_digit' = NumDigit(Cardinality(match_set))
    /\ mid_count' = 1
    /\ match_id_dict1' = EmptyDict
    /\ match_id_dict2' = EmptyDict
    /\ m_pc' = "assign"
    /\ UNCHANGED <<match_set, m_enum, dataset1, dataset2, m_mids,
                   add_rec_ident, new_dataset1, new_dataset2, m_read,
                   m_result>>

\* An append that forgets the identifiers the record already has.
AppendMidForgetting(dict, rec_id, this_mid) == DictSet(dict, rec_id, <<this_mid>>)

\* mid_list = dict.get(rec_id, []); mid_list.append(this_mid);
\* dict[rec_id] = mid_list
AppendMid(dict, rec_id, this_mid) ==
    DictSet(dict, rec_id, Append(DictGet(dict, rec_id, <<>>), this_mid))

\* One iteration of the loop over match_rec_id_list.
SMD_AssignPair ==
    /\ UNCHANGED <<hvars, svars, lvars>>
    /\ m_pc = "assign"
    /\ Len(m_mids) < Len(match_rec_id_list)
    /\ LET rec_id_tuple == match_rec_id_list[Len(m_mids) + 1]
           rec_id1  == rec_id_tuple[1]
           rec_id2  == rec_id_tuple[2]
           this_mid == ThisMid(mid_count, num_digit)
           dict1    == AppendMid(match_id_dict1, rec_id1, this_mid)
       IN  /\ IF do_link
              THEN /\ match_id_dict1' = dict1
                   /\ match_id_dict2' = AppendMid(match_id_dict2, rec_id2, this_mid)
              ELSE /\ match_id_dict1' = AppendMid(dict1, rec_id2, this_mid)
                   /\ UNCHANGED match_id_dict2
           /\ m_mids' = Append(m_mids, this_mid)
    /\ mid_count' = mid_count + 1
    /\ UNCHANGED <<m_pc, match_set, m_enum, dataset1, dataset2, do_link,
                   match_rec_id_list, num_digit, add_rec_ident, new_dataset1,
                   new_dataset2, m_read, m_result>>

\* add_rec_ident: the record identifier is none of the declared fields.
AddRecIdent(dataset) ==
    \A i \in 1..Len(dataset.field_list) :
        dataset.field_list[i][1] # dataset.rec_ident

\* The field list of the output data set: the input's fields (for COL with
\* the columns 0, 1, ...), the record identifier if it is no field, and the
\* match identifier field, from last_col_index on.
NewFieldList(dataset, id_field) ==
    LET fl   == dataset.field_list
        base == IF dataset.dataset_type = "CSV" THEN fl
                ELSE [i \in 1..Len(fl) |-> <<fl[i][1], i - 1>>]
        last_col_index ==
                IF dataset.dataset_type = "CSV" THEN fl[Len(fl)][2] + 1
                ELSE Len(fl)
    IN  IF AddRecIdent(dataset)
        THEN base \o <<<<dataset.rec_ident, last_col_index>>,
                       <<id_field, last_col_index + 1>>>>
        ELSE base \o <<<<id_field, last_col_index>>>>

\* The row written for a record: its values, its identifier if that field was
\* added, and its match identifiers joined with ';'.
NewRow(record, add_ident, match_id_dict) ==
    LET rec_id   == record[1]
        rec_list == record[2]
        mid_list == DictGet(match_id_dict, rec_id, <<>>)
    IN  (IF add_ident THEN Append(rec_list, rec_id) ELSE rec_list)
        \o <<JoinSemi(mid_list)>>

\* After the loop: the field list of the first output data set, which is
\* then created (DataSetCSV in write mode), or cannot be.
SMD_Create1 ==
    /\ UNCHANGED <<hvars, svars, lvars>>
    /\ m_pc = "assign"
    /\ Len(m_mids) = Len(match_rec_id_list)
    /\ add_rec_ident' = AddRecIdent(dataset1)
    /\ \/ /\ new_dataset1' = [field_list |-> NewFieldList(dataset1, id_field1),
                              rows |-> <<>>, finalised |-> 0]
          /\ m_pc' = "write1"
          /\ m_read' = 0
          /\ UNCHANGED m_result
       \/ /\ m_result' = "IOError"
          /\ m_pc' = "done"
          /\ UNCHANGED <<new_dataset1, m_read>>
    /\ UNCHANGED <<match_set, m_enum, dataset1, dataset2, do_link,
                   match_rec_id_list, num_digit, mid_count, match_id_dict1,
                   match_id_dict2, m_mids, new_dataset2>>

\* The first data set's dictionary used for the second data set as well.
IndexOfSide2AsSide1 == match_id_dict1

\* The match identifier dictionary the second data set's rows are built from.
IndexOfSide2 == match_id_dict2

\* One iteration of the loop over dataset1.readall().
SMD_WriteRow1 ==
    /\ UNCHANGED <<hvars, svars, lvars>>
    /\ m_pc = "write1"
    /\ m_read < Len(dataset1.records)
    /\ new_dataset1' =
          [new_dataset1 EXCEPT !.rows =
              Append(@, NewRow(dataset1.records[m_read + 1], add_rec_ident,
                               match_id_dict1))]
    /\ m_read' = m_read + 1
    /\ UNCHANGED <<m_pc, match_set, m_enum, dataset1, dataset2, do_link,
                   match_rec_id_list, num_digit, mid_count, match_id_dict1,
                   match_id_dict2, m_mids, add_rec_ident, new_dataset2,
                   m_result>>

\* new_dataset1.finalise(); a deduplication returns here.
SMD_Finalise1 ==
    /\ UNCHANGED <<hvars, svars, lvars>>
    /\ m_pc = "write1"
    /\ m_read = Len(dataset1.records)
    /\ new_dataset1' = [new_dataset1 EXCEPT !.finalised = @ + 1]
    /\ IF do_link
       THEN m_pc' = "create2" /\ UNCHANGED m_result
       ELSE m_pc' = "done" /\ m_result' = "returned"
    /\ UNCHANGED <<match_set, m_enum, dataset1, dataset2, do_link,
                   match_rec_id_list, num_digit, mid_count, match_id_dict1,
                   match_id_dict2, m_mids, add_rec_ident, new_dataset2,
                   m_read>>

\* A linkage: the field list of the second output data set, then created.
SMD_Create2 ==
    /\ UNCHANGED <<hvars, svars, lvars>>
    /\ m_pc = "create2"
    /\ add_rec_ident' = AddRecIdent(dataset2)
    /\ \/ /\ new_dataset2' = [field_list |-> NewFieldList(dataset2, id_field2),
                              rows |-> <<>>, finalised |-> 0]
          /\ m_pc' = "write2"
          /\ m_read' = 0
          /\ UNCHANGED m_result
       \/ /\ m_result' = "IOError"
          /\ m_pc' = "done"
          /\ UNCHANGED <<new_dataset2, m_read>>
    /\ UNCHANGED <<match_set, m_enum, dataset1, dataset2, do_link,
                   match_rec_id_list, num_digit, mid_count, match_id_dict1,
                   match_id_dict2, m_mids, new_dataset1>>

\* One iteration of the loop over dataset2.readall().
SMD_WriteRow2 ==
    /\ UNCHANGED <<hvars, svars, lvars>>
    /\ m_pc = "write2"
    /\ m_read < Len(dataset2.records)
    /\ new_dataset2' =
          [new_dataset2 EXCEPT !.rows =
              Append(@, NewRow(dataset2.records[m_read + 1], add_rec_ident,
                               IndexOfSide2))]
    /\ m_read' = m_read + 1
    /\ UNCHANGED <<m_pc, match_set, m_enum, dataset1, dataset2, do_link,
                   match_rec_id_list, num_digit, mid_count, match_id_dict1,
                   match_id_dict2, m_mids, add_rec_ident, new_dataset1,
                   m_result>>

\* new_dataset2.finalise() and return
SMD_Finalise2 ==
    /\ UNCHANGED <<hvars, svars, lvars>>
    /\ m_pc = "write2"
    /\ m_read = Len(dataset2.records)
    /\ new_dataset2' = [new_dataset2 EXCEPT !.finalised = @ + 1]
    /\ m_pc' = "done"
    /\ m_result' = "returned"
    /\ UNCHANGED <<match_set, m_enum, dataset1, dataset2, do_link,
                   match_rec_id_list, num_digit, mid_count, match_id_dict1,
                   match_id_dict2, m_mids, add_rec_ident, new_dataset1,
                   m_read>>

SaveMatchDataSet ==
    \/ SMD_Prepare
    \/ SMD_AssignPair
    \/ SMD_Create1
    \/ SMD_WriteRow1
    \/ SMD_Finalise1
    \/ SMD_Create2
    \/ SMD_WriteRow2
    \/ SMD_Finalise2

(***************************************************************************)
(* Properties of SaveMatchDataSet.                                         *)
(***************************************************************************)
NumMatches == Cardinality(match_set)

Started == m_pc \notin {"idle", "start"}

\* The decimal numerals, written out.
Numeral ==
    <<"1", "2", "3", "4", "5", "6", "7", "8", "9", "10", "11", "12", "13",
      "14", "15", "16">>

\* C3: the sorted list holds exactly the pairs of the match set in strictly
\* ascending order (first component, then second), whatever the order the set
\* was enumerated in; the loop produces one identifier per position, the
\* identifier at position i carries the number i, the identifiers are pairwise
\* distinct, and after the loop there are exactly N of them.
C3_IdentifiersFollowSortedPairs ==
    Started =>
        /\ Len(match_rec_id_list) = NumMatches
        /\ {match_rec_id_list[i] : i \in 1..Len(match_rec_id_list)} = match_set
        /\ \A i \in 1..(Len(match_rec_id_list) - 1) :
              PairLess(match_rec_id_list[i], match_rec_id_list[i + 1])
        /\ Len(m_mids) <= NumMatches
        /\ m_pc # "assign" => Len(m_mids) = NumMatches
        /\ mid_count = Len(m_mids) + 1
        /\ \A i \in 1..Len(m_mids) :
              m_mids[i] \in {"mid" \o Numeral[i], "mid0" \o Numeral[i]}
        /\ \A i, j \in 1..Len(m_mids) : i # j => m_mids[i] # m_mids[j]

\* Three pairs enumerated out of order have received their identifiers.
C3_Witness ==
    /\ m_pc = "done"
    /\ m_result = "returned"
    /\ NumMatches = 3
    /\ m_enum # match_rec_id_list
    /\ m_mids = <<"mid1", "mid2", "mid3">>

\* max(1, ceil(log10(n))) for 0 < n <= 100, and 1 for n = 0.
WidthFor(n) == IF n <= 10 THEN 1 ELSE 2

\* The number i zero-padded on the left to the width w <= 2.
ZeroPadded(i, w) == IF w = 2 /\ i < 10 THEN "0" \o Numeral[i] ELSE Numeral[i]

\* C4: from the moment the width is computed (before the first identifier) it
\* is max(1, ceil(log10(N))), 1 for N = 0, and every identifier is "mid"
\* followed by its number zero-padded on the left to that width.
C4_ZeroPaddedToWidth ==
    Started =>
        /\ num_digit = WidthFor(NumMatches)
        /\ \A i \in 1..Len(m_mids) :
              m_mids[i] = "mid" \o ZeroPadded(i, WidthFor(NumMatches))

\* Eleven pairs: the width is 2 and the identifiers run mid01 .. mid11.
C4_Witness ==
    /\ NumMatches = 11
    /\ Len(m_mids) = 11
    /\ num_digit = 2
    /\ m_mids[1] = "mid01"
    /\ m_mids[9] = "mid09"
    /\ m_mids[11] = "mid11"

\* The identifiers a record has after the first k pairs: for each pair in
\* order, its identifier once if the record is the pair's element on the side
\* looked at, and in a deduplication once for each element the record is.
RECURSIVE MidsOf(_, _, _)
MidsOf(rec_id, side, k) ==
    IF k = 0 THEN <<>>
    ELSE LET pair == match_rec_id_list[k]
             first  == IF side \in {"first", "both"} /\ pair[1] = rec_id
                       THEN <<m_mids[k]>> ELSE <<>>
             second == IF side \in {"second", "both"} /\ pair[2] = rec_id
                       THEN <<m_mids[k]>> ELSE <<>>
         IN  MidsOf(rec_id, side, k - 1) \o first \o second

Endpoints(side, k) ==
    {match_rec_id_list[i][1] : i \in {j \in 1..k : side \in {"first", "both"}}}
    \cup
    {match_rec_id_list[i][2] : i \in {j \in 1..k : side \in {"second", "both"}}}

IndexIs(dict, side) ==
    /\ DOMAIN dict = Endpoints(side, Len(m_mids))
    /\ \A rec_id \in DOMAIN dict :
          dict[rec_id] = MidsOf(rec_id, side, Len(m_mids))

\* C5: after any number of iterations, in a linkage the first dictionary
\* holds for every first element, and the second for every second element,
\* the identifiers of its pairs in assignment order; in a deduplication the
\* first dictionary holds them for every element and the second stays empty.
\* A record is a key exactly when it is such an element of a pair visited.
C5_MembershipIndex ==
    Started =>
        IF do_link
        THEN IndexIs(match_id_dict1, "first") /\ IndexIs(match_id_dict2, "second")
        ELSE IndexIs(match_id_dict1, "both") /\ match_id_dict2 = EmptyDict

\* The deduplication of {(1,2), (2,3)}: record 2 has mid1 and mid2.
C5_Witness ==
    /\ m_pc = "done"
    /\ ~do_link
    /\ match_set = {<<1, 2>>, <<2, 3>>}
    /\ match_id_dict1[2] = <<"mid1", "mid2">>
    /\ match_id_dict1[1] = <<"mid1">>

FieldNames(field_list) == [i \in 1..Len(field_list) |-> field_list[i][1]]

\* The claim for one data set and its output, once the output exists.
SchemaAsClaimed(dataset, out, id_field) ==
    LET fl    == dataset.field_list
        n     == Len(fl)
        new   == out.field_list
        added == IF \E i \in 1..n : fl[i][1] = dataset.rec_ident
                 THEN <<id_field>> ELSE <<dataset.rec_ident, id_field>>
    IN  /\ FieldNames(new) = FieldNames(fl) \o added
        /\ \A i \in (n + 2)..Len(new) : new[i][2] = new[i - 1][2] + 1
        /\ \A i \in 1..n : \A j \in (n + 1)..Len(new) : new[i][2] # new[j][2]
        /\ \A i \in 1..n : new[i][2] < new[n + 1][2]

\* C8 as claimed: the output field list is the original fields, the record
\* identifier if it is no declared field, and the match identifier last; the
\* added fields have contiguous columns after the original columns, and none
\* shares a column with an original field.
C8_AsClaimed ==
    /\ new_dataset1 # NoOutput =>
          SchemaAsClaimed(dataset1, new_dataset1, id_field1)
    /\ new_dataset2 # NoOutput =>
          SchemaAsClaimed(dataset2, new_dataset2, id_field2)

\* ';'.join, built from the right.
RECURSIVE JoinedFromRight(_)
JoinedFromRight(list) ==
    IF Len(list) = 0 THEN ""
    ELSE IF Len(list) = 1 THEN list[1]
    ELSE JoinedFromRight(SubSeq(list, 1, Len(list) - 1))
         \o ";" \o list[Len(list)]

RowAsClaimed(dataset, record, dict) ==
    LET ident == IF \E i \in 1..Len(dataset.field_list) :
                        dataset.field_list[i][1] = dataset.rec_ident
                 THEN <<>> ELSE <<record[1]>>
        mids  == IF record[1] \in DOMAIN dict THEN dict[record[1]] ELSE <<>>
    IN  record[2] \o ident \o <<JoinedFromRight(mids)>>

\* The rows written so far are those of the first records of the source, in
\* its order; the output is finalised at most once, and then holds a row for
\* every record.
OutputAsClaimed(dataset, out, dict) ==
    /\ Len(out.rows) <= Len(dataset.records)
    /\ \A j \in 1..Len(out.rows) :
          out.rows[j] = RowAsClaimed(dataset, dataset.records[j], dict)
    /\ out.finalised \in {0, 1}
    /\ out.finalised = 1 => Len(out.rows) = Len(dataset.records)

\* C9: each side written gets one row per source record, in the source's
\* order, made of the source row, the record identifier if that field was
\* added, and the record's identifiers joined with ';' ("" if it has none);
\* the output is finalised once, after its last row. A linkage writes side 1
\* from the first dictionary and side 2 from the second; a deduplication
\* writes side 1 only.
C9_AnnotatedRows ==
    /\ OutputAsClaimed(dataset1, new_dataset1, match_id_dict1)
    /\ OutputAsClaimed(dataset2, new_dataset2, match_id_dict2)
    /\ m_pc = "write1" => /\ Len(new_dataset1.rows) = m_read
                          /\ new_dataset1.finalised = 0
    /\ m_pc = "write2" => /\ Len(new_dataset2.rows) = m_read
                          /\ new_dataset2.finalised = 0
    /\ m_pc \in {"create2", "write2"} => new_dataset1.finalised = 1
    /\ m_result = "returned" =>
          /\ new_dataset1.finalised = 1
          /\ IF do_link THEN new_dataset2.finalised = 1
             ELSE new_dataset2 = NoOutput

\* The linkage of {(1,2), (3,2)} has returned: on side 2, whose record
\* identifier is no declared field, record 2 has the row of its values, its
\* identifier and "mid1;mid2", and a record in no pair has "".
C9_Witness ==
    /\ m_result = "returned"
    /\ do_link
    /\ match_set = {<<1, 2>>, <<3, 2>>}
    /\ new_dataset1.finalised = 1
    /\ Len(new_dataset1.rows) = 3
    /\ \E j \in 1..Len(new_dataset2.rows) :
          new_dataset2.rows[j] = <<21, 22, 2, "mid1;mid2">>
    /\ \E j \in 1..Len(new_dataset2.rows) :
          new_dataset2.rows[j] = <<11, 12, 1, "">>

(***************************************************************************)
(* SaveMatchStatusFile                                                     *)
(***************************************************************************)
SRest ==
    /\ s_enum \in Orders(s_match_set)
    /\ s_match_rec_id_list = <<>>
    /\ s_num_digit = 0
    /\ s_mid_count = 0
    /\ s_file = "none"
    /\ s_lines = <<>>
    /\ s_result = "running"

SIdle ==
    /\ s_pc = "idle"
    /\ s_w_vec_dict = EmptyDict
    /\ s_match_set = {}
    /\ SRest

SInit ==
    /\ s_pc = "start"
    /\ s_w_vec_dict \in Mappings(SmallPairs, HVectorsSmall)
    /\ s_match_set \in SUBSET SmallPairs
    /\ SRest

\* Sort the match set, compute the digit width, start the counter.
SS_Prepare ==
    /\ UNCHANGED <<hvars, mvars, lvars>>
    /\ s_pc = "start"
    /\ s_match_rec_id_list' = SortPairs(s_enum)
    /\ s_num_digit' = NumDigit(Cardinality(s_match_set))
    /\ s_mid_count' = 1
    /\ s_pc' = "open"
    /\ UNCHANGED <<s_w_vec_dict, s_match_set, s_enum, s_file, s_lines,
                   s_result>>

\* f = open(file_name, "w"), or IOError
SS_Open ==
    /\ UNCHANGED <<hvars, mvars, lvars>>
    /\ s_pc = "open"
    /\ \/ /\ s_file' = "open"
          /\ s_pc' = "write"
          /\ UNCHANGED s_result
       \/ /\ s_result' = "IOError"
          /\ s_pc' = "done"
          /\ UNCHANGED s_file
    /\ UNCHANGED <<s_w_vec_dict, s_match_set, s_enum, s_match_rec_id_list,
                   s_num_digit, s_mid_count, s_lines>>

\* A row that carries the first identifier whatever the pair.
StatusRowFirstMid(rec_id_tuple, w_sum, this_mid) ==
    [rec_id1 |-> rec_id_tuple[1], rec_id2 |-> rec_id_tuple[2],
     w_sum |-> w_sum, this_mid |-> "mid1"]

\* The row "%s,%s,%f,%s" by its four columns.
StatusRow(rec_id_tuple, w_sum, this_mid) ==
    [rec_id1 |-> rec_id_tuple[1], rec_id2 |-> rec_id_tuple[2],
     w_sum |-> w_sum, this_mid |-> this_mid]

\* One iteration of the loop over match_rec_id_list: the pair's weight vector
\* is looked up (KeyError if it has none) and its row written (or not).
SS_WriteRow ==
    /\ UNCHANGED <<hvars, mvars, lvars>>
    /\ s_pc = "write"
    /\ s_mid_count <= Len(s_match_rec_id_list)
    /\ LET rec_id_tuple == s_match_rec_id_list[s_mid_count]
       IN  IF rec_id_tuple \notin DOMAIN s_w_vec_dict
           THEN /\ s_result' = "KeyError"
                /\ s_pc' = "done"
                /\ UNCHANGED <<s_lines, s_mid_count>>
           ELSE \/ /\ s_lines' =
                         Append(s_lines,
                                StatusRow(rec_id_tuple,
                                          PySum(s_w_vec_dict[rec_id_tuple]),
                                          ThisMid(s_mid_count, s_num_digit)))
                   /\ s_mid_count' = s_mid_count + 1
                   /\ UNCHANGED <<s_pc, s_result>>
                \/ /\ s_result' = "IOError"
                   /\ s_pc' = "done"
                   /\ UNCHANGED <<s_lines, s_mid_count>>
    /\ UNCHANGED <<s_w_vec_dict, s_match_set, s_enum, s_match_rec_id_list,
                   s_num_digit, s_file>>

\* f.close()
SS_Close ==
    /\ UNCHANGED <<hvars, mvars, lvars>>
    /\ s_pc = "write"
    /\ s_mid_count > Len(s_match_rec_id_list)
    /\ s_file' = "closed"
    /\ s_pc' = "done"
    /\ s_result' = "returned"
    /\ UNCHANGED <<s_w_vec_dict, s_match_set, s_enum, s_match_rec_id_list,
                   s_num_digit, s_mid_count, s_lines>>

SaveMatchStatusFile ==
    \/ SS_Prepare
    \/ SS_Open
    \/ SS_WriteRow
    \/ SS_Close

(***************************************************************************)
(* LoadWeightVectorFile                                                    *)
(***************************************************************************)
\* Lines a weight vector file is made of.
MaxFileLines == 3

HeaderRow == <<"rec_id1", "rec_id2", "surname">>

FileRows ==
    {HeaderRow, <<"1", "2", "70">>, <<"1", "2", "-5">>, <<"2", "3", "abc">>,
     <<"1">>}

FileNames == {"w.csv", "w.csv.gz", "w.csv.GZ"}

\* file_name[-3:] in [".gz", ".GZ"]
EndsWithGz(name) == name \in {"w.csv.gz", "w.csv.GZ"}

\* float(w): the texts that are numbers, and their values.
ParsesAsFloat(w) == w \in {"70", "-5", "2"}

FloatOf(w) == CASE w = "70" -> 70 [] w = "-5" -> -5 [] w = "2" -> 2

FileContents == UNION {[1..n -> FileRows] : n \in 0..MaxFileLines}

LRest ==
    /\ in_file = "none"
    /\ l_next = 0
    /\ field_names_list = <<>>
    /\ weight_vec_dict = EmptyDict
    /\ l_result = "running"

LIdle ==
    /\ l_pc = "idle"
    /\ l_file_name = ""
    /\ l_existing = {}
    /\ l_content = <<>>
    /\ LRest

LInit ==
    /\ l_pc = "start"
    /\ l_file_name \in {"w.csv", "w.csv.gz"}
    /\ l_existing \in SUBSET FileNames
    /\ l_content \in FileContents
    /\ LRest

\* A name without a gzip ending is replaced by name.gz, else name.GZ, if
\* such a file exists.
ResolvedName(name, existing) ==
    IF EndsWithGz(name) THEN name
    ELSE IF (name \o ".gz") \in existing THEN name \o ".gz"
    ELSE IF (name \o ".GZ") \in existing THEN name \o ".GZ"
    ELSE name

\* Resolve the name and open the file (gzip.open or open), or IOError.
LW_Open ==
    /\ UNCHANGED <<hvars, mvars, svars>>
    /\ l_pc = "start"
    /\ l_file_name' = ResolvedName(l_file_name, l_existing)
    /\ IF l_file_name' \in l_existing
       THEN /\ in_file' = "open"
            /\ l_pc' = "header"
            /\ UNCHANGED l_result
       ELSE /\ l_result' = "IOError"
            /\ l_pc' = "done"
            /\ UNCHANGED in_file
    /\ UNCHANGED <<l_existing, l_content, l_next, field_names_list,
                   weight_vec_dict>>

\* header_line = next(csv_parser); field_names_list = header_line[2:]
LW_Header ==
    /\ UNCHANGED <<hvars, mvars, svars>>
    /\ l_pc = "header"
    /\ IF l_content = <<>>
       THEN /\ l_result' = "StopIteration"
            /\ l_pc' = "done"
            /\ UNCHANGED <<l_next, field_names_list>>
       ELSE /\ field_names_list' = SubSeq(l_content[1], 3, Len(l_content[1]))
            /\ l_next' = 1
            /\ l_pc' = "rows"
            /\ UNCHANGED l_result
    /\ UNCHANGED <<l_file_name, l_existing, l_content, in_file,
                   weight_vec_dict>>

\* One iteration of the loop over the remaining rows of the file.
LW_Row ==
    /\ UNCHANGED <<hvars, mvars, svars>>
    /\ l_pc = "rows"
    /\ l_next < Len(l_content)
    /\ LET line == l_content[l_next + 1]
           cells == SubSeq(line, 3, Len(line))
       IN  IF Len(line) < 2
           THEN /\ l_result' = "IndexError"
                /\ l_pc' = "done"
                /\ UNCHANGED <<l_next, weight_vec_dict>>
           ELSE IF \E i \in 1..Len(cells) : ~ParsesAsFloat(cells[i])
           THEN /\ l_result' = "ValueError"
                /\ l_pc' = "done"
                /\ UNCHANGED <<l_next, weight_vec_dict>>
           ELSE /\ weight_vec_dict' =
                      DictSet(weight_vec_dict, <<line[1], line[2]>>,
                              [i \in 1..Len(cells) |-> FloatOf(cells[i])])
                /\ l_next' = l_next + 1
                /\ UNCHANGED <<l_pc, l_result>>
    /\ UNCHANGED <<l_file_name, l_existing, l_content, in_file,
                   field_names_list>>

\* in_file.close(); return [field_names_list, weight_vec_dict]
LW_Close ==
    /\ UNCHANGED <<hvars, mvars, svars>>
    /\ l_pc = "rows"
    /\ l_next = Len(l_content)
    /\ in_file' = "closed"
    /\ l_pc' = "done"
    /\ l_result' = "returned"
    /\ UNCHANGED <<l_file_name, l_existing, l_content, l_next,
                   field_names_list, weight_vec_dict>>

LoadWeightVectorFile ==
    \/ LW_Open
    \/ LW_Header
    \/ LW_Row
    \/ LW_Close

(***************************************************************************)
(* Specifications: one call of one function, from any of its inputs.       *)
(***************************************************************************)
HistoInit == HInit /\ MIdle /\ SIdle /\ LIdle

SpecHisto == HistoInit /\ [][GenerateHistogram]_vars

DataSetInit == HIdle /\ MInit /\ SIdle /\ LIdle

SpecDataSet == DataSetInit /\ [][SaveMatchDataSet]_vars

\* The histogram calls of the specification of the three functions that
\* open files: no partition, small vectors.
HInitFiles ==
    /\ HInit
    /\ match_sets = NoTuple
    /\ \A t \in DOMAIN w_vec_dict : w_vec_dict[t] \in HVectorsSmall

FilesInit ==
    \/ HInitFiles /\ MIdle /\ SIdle /\ LIdle
    \/ HIdle /\ MIdle /\ SInit /\ LIdle
    \/ HIdle /\ MIdle /\ SIdle /\ LInit

FilesNext ==
    \/ GenerateHistogram
    \/ SaveMatchStatusFile
    \/ LoadWeightVectorFile

SpecFiles == FilesInit /\ [][FilesNext]_vars

(***************************************************************************)
(* Properties of the file handles.                                         *)
(***************************************************************************)
\* C7 as claimed: when GenerateHistogram, SaveMatchStatusFile or
\* LoadWeightVectorFile has ended, by a return or by an exception, the file
\* handle it opened is closed.
C7_AsClaimed ==
    /\ h_pc = "done" => h_file # "open"
    /\ s_pc = "done" => s_file # "open"
    /\ l_pc = "done" => in_file # "open"

(***************************************************************************)
(* The two exports of one match set: SaveMatchDataSet and                  *)
(* SaveMatchStatusFile are both called with it, each enumerating the set   *)
(* in an order of its own (a large set in opposite orders).                *)
(***************************************************************************)
ExportVector == <<2, 0>>

ExportsInit ==
    /\ HIdle
    /\ LIdle
    /\ m_pc = "start"
    /\ s_pc = "start"
    /\ \/ /\ match_set \in LargeMatchSets
          /\ s_w_vec_dict = [t \in BigPairs |-> ExportVector]
       \/ /\ match_set \in SUBSET SmallPairs
          /\ s_w_vec_dict \in Mappings(SmallPairs, {ExportVector})
    /\ s_match_set = match_set
    /\ dataset1 = PlainDataset
    /\ dataset2 \in {NoDataset, PlainDataset}
    /\ MRest
    /\ SRest
    /\ Cardinality(match_set) > MaxPermLen => m_enum = Reversed(s_enum)

ExportsNext ==
    \/ SaveMatchDataSet
    \/ SaveMatchStatusFile

SpecExports == ExportsInit /\ [][ExportsNext]_vars

\* The identifiers in a record's membership list.
MidsIn(dict, rec_id) ==
    LET mid_list == DictGet(dict, rec_id, <<>>)
    IN  {mid_list[i] : i \in 1..Len(mid_list)}

\* C11: when every pair of the match set is a key of the weight-vector
\* mapping, SaveMatchStatusFile meets no missing key, its rows are the pairs
\* in ascending order with their summed weights, one row per pair once it
\* has returned, and the identifier in row j is the one SaveMatchDataSet
\* gives to the same pair for the same match set, which is in the membership
\* lists of the pair's two records.
C11_SameIdentifiersInBothExports ==
    (s_pc \notin {"idle", "start"} /\ s_match_set \subseteq DOMAIN s_w_vec_dict)
    =>
    /\ s_result # "KeyError"
    /\ Len(s_lines) <= Cardinality(s_match_set)
    /\ s_result = "returned" => Len(s_lines) = Cardinality(s_match_set)
    /\ \A j \in 1..Len(s_lines) :
          LET pair == Ascending(s_match_set)[j]
          IN  /\ s_lines[j].rec_id1 = pair[1]
              /\ s_lines[j].rec_id2 = pair[2]
              /\ s_lines[j].w_sum = ExportVector[1] + ExportVector[2]
              /\ (m_pc \notin {"idle", "start"} /\ j <= Len(m_mids)) =>
                    /\ match_rec_id_list[j] = pair
                    /\ s_lines[j].this_mid = m_mids[j]
                    /\ m_mids[j] \in MidsIn(match_id_dict1, pair[1])
                    /\ m_mids[j] \in MidsIn(IF do_link THEN match_id_dict2
                                            ELSE match_id_dict1, pair[2])

\* Both exports of three pairs, enumerated in different orders, are done:
\* the third row carries mid3, as does the third pair's record.
C11_Witness ==
    /\ s_result = "returned"
    /\ m_result = "returned"
    /\ Cardinality(match_set) = 3
    /\ s_enum # m_enum
    /\ s_enum # s_match_rec_id_list
    /\ Len(s_lines) = 3
    /\ s_lines[3].this_mid = "mid3"
    /\ m_mids[3] = "mid3"
    /\ s_lines[1].this_mid = "mid1"

(***************************************************************************)
(* Histograms of up to MaxBarKeys entries in two bins: the first entries   *)
(* have the weight sum 2, the others -5; without a partition, or with the  *)
(* entries of the first bin as matches or as non-matches.                  *)
(***************************************************************************)
MaxBarKeys == 7

BarKeySet(k) == {<<1, j + 1>> : j \in 1..k}

BarMapping(k, high) ==
    [t \in BarKeySet(k) |-> IF t[2] <= high + 1 THEN <<2, 0>> ELSE <<-5, 0>>]

BarPartitions(k, high) ==
    {NoTuple,
     <<BarKeySet(high), BarKeySet(k) \ BarKeySet(high), {}>>,
     <<{}, BarKeySet(high), BarKeySet(k) \ BarKeySet(high)>>}

HInitBars ==
    /\ h_pc = "start"
    /\ \E k \in 0..MaxBarKeys : \E high \in 0..k :
          /\ w_vec_dict = BarMapping(k, high)
          /\ match_sets \in BarPartitions(k, high)
    /\ bin_width \in {0, 3}
    /\ file_name \in {"None", "histo.txt"}
    /\ h_todo = {}
    /\ histo_dict = EmptyDict
    /\ match_histo_dict = EmptyDict
    /\ non_match_histo_dict = EmptyDict
    /\ poss_match_histo_dict = EmptyDict
    /\ max_bin_w_count = -1
    /\ h_binned = EmptyDict
    /\ histo_list = <<>>
    /\ h_result = "running"
    /\ h_file = "none"
    /\ h_fs = [exists |-> FALSE, lines |-> <<>>]
    /\ h_written = 0

BarsInit == HInitBars /\ MIdle /\ SIdle /\ LIdle

SpecBars == BarsInit /\ [][GenerateHistogram]_vars

\* The bin keys of the entries scanned and the entries of a bin.
BinKeys == {h_binned[t][2] : t \in DOMAIN h_binned}

EntriesIn(x_val) == {t \in DOMAIN h_binned : h_binned[t][2] = x_val}

MaxCount ==
    CHOOSE m \in 0..Cardinality(DOMAIN h_binned) :
        /\ \A x \in BinKeys : Cardinality(EntriesIn(x)) <= m
        /\ \E x \in BinKeys : Cardinality(EntriesIn(x)) = m

\* The width the claim reserves for the report's shape.
ReservedAsClaimed ==
    IF match_sets = NoTuple THEN 19
    ELSE IF match_sets[3] = {} THEN 30
    ELSE 41

\* The data rows of the report, in its order.
DataRows == SelectSeq(histo_list, LAMBDA line : line.counts # <<>>)

Rendered == h_pc \in {"rendered", "write", "done"} /\ histo_list # <<>>

\* C12 as claimed: in every report the bar of a row is floor(c * (80 -
\* reserved) / m) long for the row's combined count c and the maximum count
\* m, so no bar is longer than 80 - reserved, the bar of a bin with the
\* maximum count is exactly 80 - reserved long, and there is one row per
\* distinct bin key, in ascending order of the keys.
C12_AsClaimed ==
    Rendered =>
        LET width == MAX_HISTO_WIDTH - ReservedAsClaimed
        IN  /\ {DataRows[i].x_val : i \in 1..Len(DataRows)} = BinKeys
            /\ \A i \in 1..(Len(DataRows) - 1) :
                  DataRows[i].x_val < DataRows[i + 1].x_val
            /\ \A i \in 1..Len(DataRows) :
                  LET c == Cardinality(EntriesIn(DataRows[i].x_val))
                  IN  /\ DataRows[i].stars = (c * width) \div MaxCount
                      /\ DataRows[i].stars <= width
                      /\ c = MaxCount => DataRows[i].stars = width

=============================================================================
